---- MODULE Spec2Model ----
(***************************************************************************)
(* TS-404 synthesizer: the two voice engines (ToneSynthesizer.ts, the one  *)
(* App uses, and WebAudioSynthesizer.ts), the zustand store (store.ts) and *)
(* the sequencer clock of App.tsx.                                         *)
(*                                                                         *)
(* Numbers.  JavaScript numbers with a fractional part are kept as scaled  *)
(* integers:                                                               *)
(*   attack, decay, release            milliseconds   (source value * 1000)*)
(*   volume, sustain, lfoAmount, detuneAmount, ringModAmount, wetness,     *)
(*   coarseness, velocity, duration    hundredths     (source value * 100) *)
(*   resonance, lfoRate                tenths         (source value * 10)  *)
(*   cutoff, frequency, tempo, note    as in the source                    *)
(*   slideTime                         milliseconds   (source value * 1000)*)
(* Time is in milliseconds and relative: a pending callback holds the time *)
(* left until it is due.  setTimeout and setInterval take their delay as   *)
(* an integer number of milliseconds, so a fractional delay is truncated.  *)
(***************************************************************************)
EXTENDS Integers, Sequences, FiniteSets, TLC

VARIABLES
  tone,              \* the ToneSynthesizer instance (synthRef.current in App)
  web,               \* a WebAudioSynthesizer instance
  timers,            \* pending setTimeout / setInterval callbacks, in creation order
  params,            \* store: params
  activeKeys,        \* store: activeKeys
  sequencerSteps,    \* store: sequencerSteps
  currentStep,       \* store: currentStep
  tempo,             \* store: tempo
  isSequencerRunning,\* store: isSequencerRunning
  currentPreset,     \* store: currentPreset
  sequencerStepsRef, \* App: sequencerStepsRef.current
  effectDeps,        \* App: the dependency values the effects last ran with
  firstTick,         \* no tick has fired since the sequencer last went to Running
  userOps,           \* handlers run so far on behalf of the user
  app,               \* App: isInitialized, displayText, the patch database and list
  launcher,          \* the server launcher: retries, its children, its restart timers
  lastOp             \* the handler that ran last and the engine calls it made

vars == << tone, web, timers, params, activeKeys, sequencerSteps, currentStep,
           tempo, isSequencerRunning, currentPreset, sequencerStepsRef, effectDeps,
           firstTick, userOps, app, launcher, lastOp >>

storeVars == << params, activeKeys, sequencerSteps, currentStep, tempo,
                isSequencerRunning, currentPreset >>
appVars == << sequencerStepsRef, effectDeps, firstTick, userOps >>

(***************************************************************************)
(* Bounds of the model.                                                    *)
(***************************************************************************)
MaxVoices == 2      \* voices an engine driven directly creates in one behaviour
MaxTimers == 2      \* callbacks pending at once, engine driven directly
MaxAppVoices == 2   \* voices the engine of App creates in one behaviour
MaxAppTimers == 4   \* callbacks pending at once in App
MaxUserOps == 3     \* handlers the user triggers in one behaviour of App
MaxStoreOps == 2    \* store operations in one behaviour of the store alone

(***************************************************************************)
(* Generic helpers: a JavaScript Map is a function whose DOMAIN is its key *)
(* set.                                                                    *)
(***************************************************************************)
EmptyMap == << >>
MapSet(m, k, v) == [x \in (DOMAIN m) \cup {k} |-> IF x = k THEN v ELSE m[x]]
MapDelete(m, k) == [x \in (DOMAIN m) \ {k} |-> m[x]]
MapValues(m) == {m[k] : k \in DOMAIN m}
SetMax(S) == CHOOSE x \in S : \A y \in S : y <= x
SetMin(S) == CHOOSE x \in S : \A y \in S : x <= y
Max(a, b) == IF a >= b THEN a ELSE b
Min(a, b) == IF a <= b THEN a ELSE b

Step(n, v, d, s, e) == [note |-> n, velocity |-> v, duration |-> d, slide |-> s, enabled |-> e]

Preset_acidTechno ==
  [params |-> [oscillatorType |-> "sawtooth", frequency |-> 440, volume |-> 32, attack |-> 5,
               decay |-> 150, sustain |-> 25, release |-> 120, cutoff |-> 1300,
               resonance |-> 100, filterType |-> "lowpass", lfoRate |-> 38, lfoAmount |-> 25,
               detuneAmount |-> 8, ringModAmount |-> 0, wetness |-> 25, coarseness |-> 60],
   tempo |-> 125,
   sequencerSteps |-> <<
     Step(36, 92, 80, FALSE, TRUE),
     Step(36, 85, 50, FALSE, TRUE),
     Step(40, 92, 80, TRUE, TRUE),
     Step(43, 92, 80, FALSE, TRUE),
     Step(41, 92, 80, TRUE, TRUE),
     Step(38, 92, 60, FALSE, TRUE),
     Step(0, 92, 50, FALSE, FALSE),
     Step(38, 92, 80, TRUE, TRUE),
     Step(43, 92, 80, FALSE, TRUE),
     Step(41, 92, 80, TRUE, TRUE),
     Step(39, 88, 60, FALSE, TRUE),
     Step(36, 92, 120, FALSE, TRUE),
     Step(40, 92, 80, FALSE, TRUE),
     Step(43, 92, 80, TRUE, TRUE),
     Step(38, 92, 60, FALSE, TRUE),
     Step(36, 92, 80, FALSE, TRUE) >>]

Preset_padAmbient ==
  [params |-> [oscillatorType |-> "sine", frequency |-> 440, volume |-> 15, attack |-> 500,
               decay |-> 800, sustain |-> 60, release |-> 1000, cutoff |-> 4000,
               resonance |-> 10, filterType |-> "lowpass", lfoRate |-> 12, lfoAmount |-> 35,
               detuneAmount |-> 20, ringModAmount |-> 0, wetness |-> 60, coarseness |-> 30],
   tempo |-> 60,
   sequencerSteps |-> <<
     Step(48, 60, 100, FALSE, TRUE),
     Step(0, 60, 100, FALSE, FALSE),
     Step(52, 60, 100, FALSE, TRUE),
     Step(0, 60, 100, FALSE, FALSE),
     Step(55, 60, 100, FALSE, TRUE),
     Step(0, 60, 100, FALSE, FALSE),
     Step(60, 60, 100, TRUE, TRUE),
     Step(0, 60, 100, FALSE, FALSE),
     Step(48, 60, 100, FALSE, TRUE),
     Step(0, 60, 100, FALSE, FALSE),
     Step(52, 60, 100, FALSE, TRUE),
     Step(0, 60, 100, FALSE, FALSE),
     Step(55, 60, 100, FALSE, TRUE),
     Step(0, 60, 100, FALSE, FALSE),
     Step(57, 60, 100, TRUE, TRUE),
     Step(0, 60, 100, FALSE, FALSE) >>]

Preset_leadBright ==
  [params |-> [oscillatorType |-> "square", frequency |-> 440, volume |-> 22, attack |-> 5,
               decay |-> 120, sustain |-> 40, release |-> 100, cutoff |-> 5000,
               resonance |-> 30, filterType |-> "lowpass", lfoRate |-> 70, lfoAmount |-> 12,
               detuneAmount |-> 15, ringModAmount |-> 0, wetness |-> 20, coarseness |-> 70],
   tempo |-> 140,
   sequencerSteps |-> <<
     Step(60, 90, 60, FALSE, TRUE),
     Step(62, 80, 50, FALSE, TRUE),
     Step(64, 85, 70, FALSE, TRUE),
     Step(65, 90, 60, FALSE, TRUE),
     Step(67, 80, 50, FALSE, TRUE),
     Step(69, 85, 70, FALSE, TRUE),
     Step(70, 90, 60, TRUE, TRUE),
     Step(72, 80, 50, TRUE, TRUE),
     Step(64, 85, 70, FALSE, TRUE),
     Step(60, 90, 60, FALSE, TRUE),
     Step(0, 80, 50, FALSE, FALSE),
     Step(62, 85, 70, FALSE, TRUE),
     Step(67, 90, 60, FALSE, TRUE),
     Step(0, 80, 50, FALSE, FALSE),
     Step(64, 85, 70, FALSE, TRUE),
     Step(60, 90, 80, FALSE, TRUE) >>]

Preset_bassDeep ==
  [params |-> [oscillatorType |-> "sawtooth", frequency |-> 440, volume |-> 35, attack |-> 5,
               decay |-> 200, sustain |-> 20, release |-> 250, cutoff |-> 900,
               resonance |-> 120, filterType |-> "lowpass", lfoRate |-> 25, lfoAmount |-> 20,
               detuneAmount |-> 10, ringModAmount |-> 0, wetness |-> 15, coarseness |-> 80],
   tempo |-> 95,
   sequencerSteps |-> <<
     Step(24, 95, 80, FALSE, TRUE),
     Step(0, 95, 40, FALSE, FALSE),
     Step(29, 92, 80, TRUE, TRUE),
     Step(0, 95, 40, FALSE, FALSE),
     Step(26, 93, 80, TRUE, TRUE),
     Step(0, 95, 40, FALSE, FALSE),
     Step(22, 92, 80, FALSE, TRUE),
     Step(0, 95, 40, FALSE, FALSE),
     Step(24, 95, 80, FALSE, TRUE),
     Step(0, 95, 40, FALSE, FALSE),
     Step(31, 93, 80, TRUE, TRUE),
     Step(0, 95, 40, FALSE, FALSE),
     Step(26, 92, 80, TRUE, TRUE),
     Step(0, 95, 40, FALSE, FALSE),
     Step(24, 93, 100, FALSE, TRUE),
     Step(0, 95, 40, FALSE, FALSE) >>]

Preset_pluckStaccato ==
  [params |-> [oscillatorType |-> "triangle", frequency |-> 440, volume |-> 24, attack |-> 2,
               decay |-> 80, sustain |-> 5, release |-> 50, cutoff |-> 3500,
               resonance |-> 40, filterType |-> "highpass", lfoRate |-> 50, lfoAmount |-> 10,
               detuneAmount |-> 10, ringModAmount |-> 0, wetness |-> 10, coarseness |-> 40],
   tempo |-> 160,
   sequencerSteps |-> <<
     Step(54, 90, 30, FALSE, TRUE),
     Step(57, 80, 30, FALSE, TRUE),
     Step(59, 85, 30, FALSE, TRUE),
     Step(54, 90, 30, FALSE, TRUE),
     Step(62, 80, 30, FALSE, TRUE),
     Step(57, 85, 30, FALSE, TRUE),
     Step(54, 90, 30, FALSE, TRUE),
     Step(0, 80, 30, FALSE, FALSE),
     Step(59, 85, 30, FALSE, TRUE),
     Step(54, 90, 30, FALSE, TRUE),
     Step(57, 80, 30, FALSE, TRUE),
     Step(62, 85, 30, FALSE, TRUE),
     Step(54, 90, 30, FALSE, TRUE),
     Step(59, 80, 30, FALSE, TRUE),
     Step(57, 85, 30, FALSE, TRUE),
     Step(54, 90, 30, FALSE, TRUE) >>]

Preset_experimental ==
  [params |-> [oscillatorType |-> "square", frequency |-> 440, volume |-> 18, attack |-> 80,
               decay |-> 200, sustain |-> 25, release |-> 150, cutoff |-> 2000,
               resonance |-> 50, filterType |-> "bandpass", lfoRate |-> 60, lfoAmount |-> 40,
               detuneAmount |-> 30, ringModAmount |-> 60, wetness |-> 40, coarseness |-> 90],
   tempo |-> 110,
   sequencerSteps |-> <<
     Step(45, 80, 70, FALSE, TRUE),
     Step(0, 80, 30, FALSE, FALSE),
     Step(50, 70, 70, TRUE, TRUE),
     Step(0, 80, 30, FALSE, FALSE),
     Step(47, 75, 70, TRUE, TRUE),
     Step(0, 80, 30, FALSE, FALSE),
     Step(52, 80, 70, FALSE, TRUE),
     Step(0, 80, 30, FALSE, FALSE),
     Step(43, 75, 70, TRUE, TRUE),
     Step(0, 80, 30, FALSE, FALSE),
     Step(48, 80, 70, FALSE, TRUE),
     Step(0, 80, 30, FALSE, FALSE),
     Step(50, 70, 70, TRUE, TRUE),
     Step(0, 80, 30, FALSE, FALSE),
     Step(45, 75, 70, TRUE, TRUE),
     Step(0, 80, 30, FALSE, FALSE) >>]

PRESETS ==
  [acidTechno |-> Preset_acidTechno,
   padAmbient |-> Preset_padAmbient,
   leadBright |-> Preset_leadBright,
   bassDeep |-> Preset_bassDeep,
   pluckStaccato |-> Preset_pluckStaccato,
   experimental |-> Preset_experimental]

\* What lastOp records: the handler's name, the engine methods it entered, for the
\* handlers that restart or reset the sequencer what the sequencer was before, and for
\* the handlers whose argument matters the argument.
NoArg == [none |-> TRUE]
NoWas == [isSequencerRunning |-> FALSE, tempo |-> 0, currentStep |-> 0, tickLeft |-> -1]
OpFull(name, calls, was, arg) == [name |-> name, calls |-> calls, was |-> was, arg |-> arg]
OpWas(name, calls, was) == OpFull(name, calls, was, NoArg)
Op(name, calls) == OpWas(name, calls, NoWas)
OpArg(name, calls, arg) == OpFull(name, calls, NoWas, arg)


(***************************************************************************)
(* The server launcher (start-server.cjs).  retries is the module's        *)
(* counter; children are the processes spawn() returned, in order, each    *)
(* with what the launcher has seen of it; timers counts the pending        *)
(* setTimeout(startServer, 2000); status is "running" until process.exit.  *)
(***************************************************************************)
MAX_RETRIES == 5

\* startServer(): spawn one more child and listen to its 'exit' and 'error'.
startServer(l) ==
  [l EXCEPT !.children = Append(@, [alive |-> TRUE, exited |-> FALSE, errored |-> FALSE,
                                    restarts |-> 0])]

\* The module body: retries = 0; startServer().
LauncherInit ==
  startServer([retries |-> 0, children |-> << >>, timers |-> 0, status |-> "running"])

\* server.on('exit', (code, signal) => ...) for child c.  A child exits once; it
\* reports code 0, a failure code, or null (-1) when a signal killed it.
ServerExit(c, code) ==
  /\ launcher.status = "running"
  /\ c \in DOMAIN launcher.children
  /\ ~launcher.children[c].exited
  /\ LET gone == [launcher EXCEPT !.children[c].alive = FALSE, !.children[c].exited = TRUE]
     IN launcher' =
          IF code = 0 THEN [gone EXCEPT !.status = "exit0"]
          ELSE IF gone.retries + 1 < MAX_RETRIES
          THEN [gone EXCEPT !.retries = @ + 1, !.timers = @ + 1, !.children[c].restarts = @ + 1]
          ELSE [gone EXCEPT !.retries = @ + 1, !.status = "exit1"]
  /\ lastOp' = OpArg("exit", << >>, [child |-> c, code |-> code])
  /\ UNCHANGED << tone, web, timers, storeVars, appVars, app >>

\* server.on('error', (err) => ...) for child c.  Node emits 'error' when the process
\* could not be spawned; the 'exit' event may or may not fire after it.
ServerError(c) ==
  /\ launcher.status = "running"
  /\ c \in DOMAIN launcher.children
  /\ ~launcher.children[c].exited
  /\ ~launcher.children[c].errored
  /\ LET failed == [launcher EXCEPT !.children[c].errored = TRUE,
                                    !.children[c].alive = FALSE,
                                    !.retries = @ + 1]
     IN launcher' =
          IF failed.retries < MAX_RETRIES
          THEN [failed EXCEPT !.timers = @ + 1, !.children[c].restarts = @ + 1]
          ELSE failed
  /\ lastOp' = OpArg("error", << >>, [child |-> c])
  /\ UNCHANGED << tone, web, timers, storeVars, appVars, app >>

\* A setTimeout(startServer, 2000) fires.
FireRestart ==
  /\ launcher.status = "running"
  /\ launcher.timers > 0
  /\ launcher' = startServer([launcher EXCEPT !.timers = @ - 1])
  /\ lastOp' = Op("startServer", << >>)
  /\ UNCHANGED << tone, web, timers, storeVars, appVars, app >>

NextLauncher ==
  \/ \E c \in 1..MAX_RETRIES, code \in {0, 1, -1} : ServerExit(c, code)
  \/ \E c \in 1..MAX_RETRIES : ServerError(c)
  \/ FireRestart
(***************************************************************************)
(* Pitch conversion (the same two methods in both engines).  Frequencies   *)
(* are in millihertz.  440 * 2^((n - 69) / 12) is tabulated for the        *)
(* highest octave of MIDI notes, 116..127, and halved (or doubled) per     *)
(* octave below (or above) it; Math.round(69 + 12 * log2(f / 440)) is the  *)
(* note n with 440 * 2^((n - 69.5) / 12) <= f < 440 * 2^((n - 68.5) / 12), *)
(* whose lower limits are tabulated in the same way.                       *)
(***************************************************************************)
MidiNotes == 0 .. 127
TopOctave ==
  << 6644875, 7040000, 7458620, 7902133, 8372018, 8869844,
     9397273, 9956063, 10548082, 11175303, 11839822, 12543854 >>
TopOctaveRoundsUpFrom ==
  << 6455708, 6839585, 7246288, 7677174, 8133683, 8617337,
     9129750, 9672634, 10247798, 10857164, 11502765, 12186755 >>

RECURSIVE Pow2(_)
Pow2(k) == IF k = 0 THEN 1 ELSE 2 * Pow2(k - 1)

\* How many octaves note n lies below the tabulated one (negative: above).
OctavesBelowTop(n) == (127 - n) \div 12
Octave(x, o) == IF o >= 0 THEN x \div Pow2(o) ELSE x * Pow2(-o)
InTopOctave(table, n) == Octave(table[n + 12 * OctavesBelowTop(n) - 115], OctavesBelowTop(n))

\* The conversion with middle C as the reference note.
midiNoteToFrequency_Ref60(noteNumber) == InTopOctave(TopOctave, noteNumber + 9)

\* 440 * Math.pow(2, (noteNumber - 69) / 12)
midiNoteToFrequency(noteNumber) == InTopOctave(TopOctave, noteNumber)

\* The least frequency that Math.round(69 + 12 * Math.log2(frequency / 440)) maps to n.
RoundsUpFrom(n) == InTopOctave(TopOctaveRoundsUpFrom, n)

\* Math.round(69 + 12 * Math.log2(frequency / 440)), for the frequencies of the notes
\* one below MidiNotes to one above.
frequencyToMidiNote(frequency) ==
  CHOOSE n \in -1 .. 128 : RoundsUpFrom(n) <= frequency /\ frequency < RoundsUpFrom(n + 1)

(***************************************************************************)
(* Parameter sets.                                                         *)
(***************************************************************************)
\* The defaults both engine constructors install.
EngineDefaultParams ==
  [oscillatorType |-> "square", frequency |-> 440, volume |-> 30, attack |-> 100,
   decay |-> 200, sustain |-> 50, release |-> 300, cutoff |-> 4000,
   resonance |-> 10, filterType |-> "lowpass", lfoRate |-> 50, lfoAmount |-> 0,
   detuneAmount |-> 0, ringModAmount |-> 0, wetness |-> 30, coarseness |-> 50]

\* An update that replaces the object instead of spreading into it.
Merge_Replace(a, b) == b

\* { ...a, ...b }: every key of either, b's value where b has the key.
Merge(a, b) == [k \in (DOMAIN a) \cup (DOMAIN b) |-> IF k \in DOMAIN b THEN b[k] ELSE a[k]]

(***************************************************************************)
(* Timers.  One record per pending callback, due holding the ms left until *)
(* it runs; the fields a kind does not use are 0.                          *)
(*   toneDispose     the closure of ToneSynthesizer.noteOff: one voice     *)
(*   toneDisposeAll  the closure of ToneSynthesizer.stopAllNotes           *)
(*   webRemove       the closure of WebAudioSynthesizer.noteOff: one note  *)
(*   tick            the sequencer's setInterval callback                  *)
(*   seqNoteOff      the sequencer's one-shot note-off                     *)
(***************************************************************************)
Timer(k, d, v, n, bpm, s) ==
  [kind |-> k, due |-> d, voice |-> v, note |-> n, tempo |-> bpm, nextStep |-> s]

\* setTimeout(cb, delay): appended to the pending callbacks, due in delay ms.
SetTimeout(ts, k, delay, v, n) == Append(ts, Timer(k, delay, v, n, 0, 0))

RemoveAt(ts, i) == [j \in 1..(Len(ts) - 1) |-> IF j < i THEN ts[j] ELSE ts[j + 1]]
RECURSIVE RemoveKind(_, _)
\* clearTimeout / clearInterval on every pending callback of kind k.
RemoveKind(ts, k) ==
  IF ts = << >> THEN << >>
  ELSE IF Head(ts).kind = k THEN RemoveKind(Tail(ts), k)
       ELSE << Head(ts) >> \o RemoveKind(Tail(ts), k)
KindIndexes(ts, k) == {i \in 1..Len(ts) : ts[i].kind = k}

\* The callback the event loop runs next: earliest due time, then creation order.
NextTimer(ts) ==
  CHOOSE i \in 1..Len(ts) :
    \A j \in 1..Len(ts) : ts[i].due < ts[j].due \/ (ts[i].due = ts[j].due /\ i <= j)

(***************************************************************************)
(* ToneSynthesizer.ts.  The engine is a record                             *)
(*   voices       Map<number, VoiceNode>: note -> index into pool          *)
(*   activeNotes  Set<number>                                              *)
(*   params       SynthesizerParams                                        *)
(*   pool         every VoiceNode ever built, in creation order            *)
(* and an operation maps a machine [synth, timers, calls] to the machine   *)
(* after the call: the engine, the pending callbacks and the log of the    *)
(* engine methods entered so far by the running handler, each entry        *)
(* << method, note, velocity, slideTime >>.  A VoiceNode records what has  *)
(* been done to its Tone nodes: released (triggerRelease called) and       *)
(* disposed (dispose called).                                              *)
(***************************************************************************)
ToneInit ==
  [voices |-> EmptyMap, activeNotes |-> {}, params |-> EngineDefaultParams, pool |-> << >>,
   masterGain |-> 35]

Call(op, n, v, s) == << op, n, v, s >>
Entered(m, op, n, v, s) == [m EXCEPT !.calls = Append(@, Call(op, n, v, s))]

\* The frequency of the unconnected new Tone.LFO() a voice gets when lfoAmount is 0
\* (the library's default, not a value of the parameter set).
PlaceholderLfoRate == -1

\* The nodes noteOn builds from the baseline p: the synth's envelope (its release
\* time, and the levels it reaches: triggerAttack(Tone.now()) is called without a
\* velocity, so the attack peaks at Tone's default velocity 1 and the decay ends at
\* the envelope's sustain; levels are in ten-thousandths), the filter's frequency, Q and
\* type, and an LFO at lfoRate that is connected only if lfoAmount > 0.
ToneVoice(n, p) ==
  [note |-> n, released |-> FALSE, disposed |-> FALSE, disposals |-> 0,
   envRelease |-> p.release, peak |-> 10000, sustainLevel |-> p.sustain * 100,
   cutoff |-> p.cutoff, Q |-> p.resonance, filterType |-> p.filterType,
   lfoOn |-> p.lfoAmount > 0,
   lfoRate |-> IF p.lfoAmount > 0 THEN p.lfoRate ELSE PlaceholderLfoRate]

\* _updateVoiceParams: the targets of the 0.1 s ramps of filter.frequency, filter.Q and
\* lfo.frequency, and the filter type, which is assigned.
Tone_updateVoiceParams(voice, p) ==
  [voice EXCEPT !.cutoff = p.cutoff, !.Q = p.resonance, !.filterType = p.filterType,
                !.lfoRate = p.lfoRate]

\* A noteOff that unregisters the voice and leaves the note in activeNotes.
Tone_noteOff_KeepActive(m0, n) ==
  LET m == Entered(m0, "noteOff", n, 0, 0) IN
  IF n \in DOMAIN m.synth.voices
  THEN LET v == m.synth.voices[n] IN
       [m EXCEPT !.synth.pool[v].released = TRUE,
                 !.synth.voices = MapDelete(@, n),
                 !.timers = SetTimeout(@, "toneDispose", m.synth.params.release + 100, v, n)]
  ELSE m

Tone_noteOff(m0, n) ==
  LET m == Entered(m0, "noteOff", n, 0, 0) IN
  IF n \in DOMAIN m.synth.voices
  THEN LET v == m.synth.voices[n] IN
       [m EXCEPT !.synth.pool[v].released = TRUE,
                 !.synth.voices = MapDelete(@, n),
                 !.synth.activeNotes = @ \ {n},
                 !.timers = SetTimeout(@, "toneDispose", m.synth.params.release + 100, v, n)]
  ELSE m

\* A retrigger that skips the noteOff of the voice already registered.
Tone_noteOn_NoRetrigger(m0, n, velocity, slideTime) ==
  LET m == Entered(m0, "noteOn", n, velocity, slideTime)
  IN [m EXCEPT !.synth.pool = Append(@, ToneVoice(n, m.synth.params)),
               !.synth.voices = MapSet(@, n, Len(m.synth.pool) + 1),
               !.synth.activeNotes = @ \cup {n}]

Tone_noteOn(m0, n, velocity, slideTime) ==
  LET m  == Entered(m0, "noteOn", n, velocity, slideTime)
      m1 == IF n \in m.synth.activeNotes THEN Tone_noteOff(m, n) ELSE m
  IN [m1 EXCEPT !.synth.pool = Append(@, ToneVoice(n, m1.synth.params)),
                !.synth.voices = MapSet(@, n, Len(m1.synth.pool) + 1),
                !.synth.activeNotes = @ \cup {n}]

Tone_stopAllNotes(m0) ==
  LET m == Entered(m0, "stopAllNotes", 0, 0, 0)
      live == MapValues(m.synth.voices)
  IN [m EXCEPT !.synth.pool = [v \in DOMAIN @ |->
                                 IF v \in live THEN [@[v] EXCEPT !.released = TRUE]
                                 ELSE @[v]],
               !.timers = SetTimeout(@, "toneDisposeAll", m.synth.params.release + 100, 0, 0)]

\* An updateParams that merges and leaves the voices as they are.
Tone_updateParams_NoPush(m0, partial) ==
  LET m == Entered(m0, "updateParams", 0, 0, 0)
  IN [m EXCEPT !.synth.params = Merge(@, partial)]

\* updateParams: merge, then _updateVoiceParams for every voice in this.voices.
Tone_updateParams(m0, partial) ==
  LET m == Entered(m0, "updateParams", 0, 0, 0)
      p == Merge(m.synth.params, partial)
      registered == MapValues(m.synth.voices)
  IN [m EXCEPT !.synth.params = p,
               !.synth.pool = [v \in DOMAIN @ |->
                                 IF v \in registered THEN Tone_updateVoiceParams(@[v], p)
                                 ELSE @[v]]]

\* setMasterVolume without the lower limit.
Tone_setMasterVolume_NoFloor(m0, volume) ==
  [m0 EXCEPT !.synth.masterGain = Min(100, volume)]

\* setMasterVolume: masterGain.gain.rampTo(Math.max(0, Math.min(1, volume)), 0.1); the
\* field holds the ramp's target, in hundredths.
Tone_setMasterVolume(m0, volume) ==
  [m0 EXCEPT !.synth.masterGain = Max(0, Min(100, volume))]

\* The setTimeout callback of noteOff: disposes the voice the closure captured.
Tone_disposeVoice(m, v) ==
  [m EXCEPT !.synth.pool[v].disposed = TRUE, !.synth.pool[v].disposals = @ + 1]

\* A callback that clears the map and the set without disposing the voices.
Tone_disposeAll_ClearOnly(m) ==
  [m EXCEPT !.synth.voices = EmptyMap, !.synth.activeNotes = {}]

\* The setTimeout callback of stopAllNotes: disposes whatever this.voices holds
\* when it runs, then clears the map and the set.
Tone_disposeAll(m) ==
  LET live == MapValues(m.synth.voices) IN
  [m EXCEPT !.synth.pool = [v \in DOMAIN @ |->
                              IF v \in live
                              THEN [@[v] EXCEPT !.disposed = TRUE, !.disposals = @ + 1]
                              ELSE @[v]],
            !.synth.voices = EmptyMap,
            !.synth.activeNotes = {}]

(***************************************************************************)
(* WebAudioSynthesizer.ts.  The engine is a record of its maps             *)
(*   oscillators, gains, filters, lfos, ringModOscillators, ringModGains   *)
(* (note -> index into pool), activeNotes, params, and pool: the node      *)
(* graph built by each noteOn, in creation order.  A graph records whether *)
(* its release ramp was scheduled (released) and whether stopAllNotes      *)
(* stopped its oscillator at once (stopped).                               *)
(***************************************************************************)
WebInit ==
  [oscillators |-> EmptyMap, gains |-> EmptyMap, filters |-> EmptyMap, lfos |-> EmptyMap,
   ringModOscillators |-> EmptyMap, ringModGains |-> EmptyMap,
   activeNotes |-> {}, params |-> EngineDefaultParams, pool |-> << >>,
   masterGain |-> 100]

\* The value an AudioParam's automation gives at time t: that of the last event at or
\* before t, or, when the next event is a linearRampToValueAtTime, the point of the
\* line between the two.  events is in time order and starts at or before t.
ParamValueAt(events, t) ==
  LET prev == events[SetMax({i \in DOMAIN events : events[i].time <= t})]
      later == {i \in DOMAIN events : events[i].time > t}
  IN IF later # {} /\ events[SetMin(later)].ramp
     THEN LET next == events[SetMin(later)] IN
          prev.value + ((next.value - prev.value) * (t - prev.time)) \div (next.time - prev.time)
     ELSE prev.value

\* gain.gain.value of a voice.  The attribute holds what the audio thread last
\* rendered; before the first render quantum after createGain() (age 0) that is the
\* default gain 1, afterwards the automation's value at that time.
WebGainValue(voice) ==
  IF voice.age = 0 THEN 10000 ELSE ParamValueAt(voice.automation, voice.age)

\* cancelScheduledValues(now); setValueAtTime(gain.gain.value, now);
\* linearRampToValueAtTime(0, now + release), on the gain of a voice.
WebRelease(voice, release) ==
  [voice EXCEPT !.released = TRUE,
                !.automation =
                  SelectSeq(@, LAMBDA e : e.time < voice.age)
                  \o << [value |-> WebGainValue(voice), time |-> voice.age, ramp |-> FALSE],
                        [value |-> 0, time |-> voice.age + release, ramp |-> TRUE] >>]

\* d ms pass for the synthesizer: the gains it can still read (those in its map) age.
\* Once the automation of a gain has ended the gain keeps its last value for good,
\* which is kept as one event at time 0 and age 1.
WebAged(w, d) ==
  [w EXCEPT !.pool = [v \in DOMAIN @ |->
    LET voice == w.pool[v]
        last == voice.automation[Len(voice.automation)]
    IN IF ~ \E n \in DOMAIN w.gains : w.gains[n] = v THEN voice
       ELSE IF voice.age + d > last.time
       THEN [voice EXCEPT !.age = 1,
                          !.automation = << [value |-> last.value, time |-> 0, ramp |-> FALSE] >>]
       ELSE [voice EXCEPT !.age = @ + d]]]

\* The node graph noteOn builds for note n from the baseline p: the oscillator, whose
\* frequency starts at slideFrom (millihertz); the gain, whose envelope peaks at
\* velocity * volume and decays to sustain * velocity * volume (ten-thousandths); an
\* LFO if lfoAmount > 0; a ring-mod oscillator with its two gains if
\* 0 < ringModAmount < 1.  lfoStopped and ringStopped: stop() was called on them.
WebVoice(n, p, velocity, slideFrom) ==
  [note |-> n, released |-> FALSE, stopped |-> FALSE, slideFrom |-> slideFrom,
   peak |-> velocity * p.volume, sustainLevel |-> (p.sustain * velocity * p.volume) \div 100,
   age |-> 0,
   automation |->
     << [value |-> 0, time |-> 0, ramp |-> FALSE],
        [value |-> velocity * p.volume, time |-> p.attack, ramp |-> TRUE],
        [value |-> (p.sustain * velocity * p.volume) \div 100, time |-> p.attack + p.decay,
         ramp |-> TRUE] >>,
   lfo |-> p.lfoAmount > 0, lfoStopped |-> FALSE,
   ring |-> p.ringModAmount > 0 /\ p.ringModAmount < 100, ringStopped |-> FALSE]

Web_noteOff(m0, n) ==
  LET m == Entered(m0, "noteOff", n, 0, 0)
      m1 == IF n \in DOMAIN m.synth.gains /\ n \in DOMAIN m.synth.oscillators
            THEN [m EXCEPT !.synth.pool[m.synth.oscillators[n]] =
                             WebRelease(@, m.synth.params.release)]
            ELSE m
  IN
  [m1 EXCEPT !.synth.pool = IF n \in DOMAIN m.synth.lfos
                            THEN [@ EXCEPT ![m.synth.lfos[n]].lfoStopped = TRUE]
                            ELSE @,
            !.synth.lfos = MapDelete(@, n),
            !.timers = SetTimeout(@, "webRemove", m.synth.params.release + 100, 0, n)]

Web_noteOn(m0, n, velocity, slideTime) ==
  LET m  == Entered(m0, "noteOn", n, velocity, slideTime)
      m1 == IF n \in m.synth.activeNotes THEN Web_noteOff(m, n) ELSE m
      p  == m1.synth.params
      v  == Len(m1.synth.pool) + 1
      ring == p.ringModAmount > 0 /\ p.ringModAmount < 100
      frequency == midiNoteToFrequency(n)
      slideFrom == IF slideTime > 0
                   THEN IF m1.synth.activeNotes # {}
                        THEN midiNoteToFrequency(SetMax(m1.synth.activeNotes))
                        ELSE frequency \div 2
                   ELSE frequency
  IN [m1 EXCEPT !.synth.pool = Append(@, WebVoice(n, p, velocity, slideFrom)),
                !.synth.lfos = IF p.lfoAmount > 0 THEN MapSet(@, n, v) ELSE @,
                !.synth.oscillators = MapSet(@, n, v),
                !.synth.gains = MapSet(@, n, v),
                !.synth.filters = MapSet(@, n, v),
                !.synth.ringModOscillators = IF ring THEN MapSet(@, n, v) ELSE @,
                !.synth.ringModGains = IF ring THEN MapSet(@, n, v) ELSE @,
                !.synth.activeNotes = @ \cup {n}]

Web_updateParams(m0, partial) ==
  LET m == Entered(m0, "updateParams", 0, 0, 0)
  IN [m EXCEPT !.synth.params = Merge(@, partial)]

Web_getActiveNotes(w) == w.activeNotes

Web_stopAllNotes(m0) ==
  LET m == Entered(m0, "stopAllNotes", 0, 0, 0)
      live == MapValues(m.synth.oscillators)
  IN [m EXCEPT !.synth.pool =
                 [v \in DOMAIN @ |->
                    [@[v] EXCEPT !.stopped = @ \/ v \in live,
                                 !.ringStopped =
                                   @ \/ v \in MapValues(m.synth.ringModOscillators),
                                 !.lfoStopped = @ \/ v \in MapValues(m.synth.lfos)]],
               !.synth.oscillators = EmptyMap,
               !.synth.gains = EmptyMap,
               !.synth.filters = EmptyMap,
               !.synth.lfos = EmptyMap,
               !.synth.ringModOscillators = EmptyMap,
               !.synth.ringModGains = EmptyMap,
               !.synth.activeNotes = {}]

\* The setTimeout callback of noteOff: removes whatever the maps hold for the note
\* when it runs.
Web_remove(m, n) ==
  [m EXCEPT !.synth.oscillators = MapDelete(@, n),
            !.synth.gains = MapDelete(@, n),
            !.synth.filters = MapDelete(@, n),
            !.synth.activeNotes = @ \ {n}]


\* setMasterVolume: masterGain.gain.value = Math.max(0, Math.min(1, volume)), in
\* hundredths (createGain() starts at gain 1).
Web_setMasterVolume(m0, volume) ==
  [m0 EXCEPT !.synth.masterGain = Max(0, Min(100, volume))]
(***************************************************************************)
(* store.ts.                                                               *)
(***************************************************************************)
\* The pattern clearSequencer installs.
ClearedPattern == [i \in 1..16 |-> Step(0, 80, 50, FALSE, TRUE)]

\* generateRandomSequence: each step is a rest or a note in 20..40, velocity in
\* [0.6, 1.0), duration in [0.5, 1.0), any slide and enabled.  The patterns drawn here
\* are two of its possible results.
RandomPatterns ==
  { [i \in 1..16 |-> IF i % 2 = 1 THEN Step(24, 99, 99, FALSE, TRUE)
                                  ELSE Step(31, 60, 50, TRUE, TRUE)],
    [i \in 1..16 |-> IF i % 2 = 1 THEN Step(40, 75, 60, TRUE, FALSE)
                                  ELSE Step(0, 80, 50, FALSE, TRUE)] }

\* clearSequencer without the reset of currentStep.
clearSequencer_KeepStep == [sequencerSteps |-> ClearedPattern, currentStep |-> currentStep]

\* clearSequencer: the partial state it hands to set().
clearSequencer == [sequencerSteps |-> ClearedPattern, currentStep |-> 0]

\* setTempo without the upper limit.
ClampTempo_NoUpper(bpm) == Max(20, bpm)
\* setTempo: Math.max(20, Math.min(300, bpm)).
ClampTempo(bpm) == Max(20, Min(300, bpm))

\* setSequencerStep: newSteps[index] = note on a copy; index is 0-based.  An index
\* past the end lengthens the array and leaves holes (undefined elements), modelled as
\* Hole.
Hole == Step(-1, -1, -1, FALSE, FALSE)
SetStep(steps, index, note) ==
  [i \in 1..Max(Len(steps), index + 1) |->
     IF i = index + 1 THEN note
     ELSE IF i <= Len(steps) THEN steps[i] ELSE Hole]

(***************************************************************************)
(* App.tsx: the sequencer clock.                                           *)
(***************************************************************************)
\* stepDurationMs = (60000 / tempo) / 4, as the delay setInterval gets.
StepDurationMs(bpm) == (60000 \div bpm) \div 4
\* stepDurationMs * note.duration * 0.9, as the delay setTimeout gets (duration in
\* hundredths, the product truncated to whole milliseconds).
NoteOffDelay(bpm, duration) == (60000 * duration * 9) \div (bpm * 4 * 100 * 10)
\* The test without note.enabled.
StepPlays_IgnoreEnabled(note) == note.note > 0
\* note.enabled && note.note > 0 (synthRef.current is set once App is mounted).
StepPlays(note) == note.enabled /\ note.note > 0
\* note.slide ? 0.3 : 0, in ms.
SlideTime(step) == IF step.slide THEN 300 ELSE 0

\* The values the effects depend on.
Deps ==
  [isSequencerRunning |-> isSequencerRunning, tempo |-> tempo, currentStep |-> currentStep,
   params |-> params, sequencerSteps |-> sequencerSteps]
\* The dependency list without tempo.
SequencerDeps_NoTempo(d) == << d.isSequencerRunning, d.currentStep >>
SequencerDeps(d) == << d.isSequencerRunning, d.tempo, d.currentStep >>
\* A store update has not yet been rendered and its effects not yet run.
Dirty == effectDeps # Deps

RECURSIVE ReleaseKeys(_, _)
\* activeKeys.forEach(key => synthRef.current.noteOff(key)).
ReleaseKeys(m, keys) ==
  IF keys = {} THEN m
  ELSE LET k == SetMin(keys) IN ReleaseKeys(Tone_noteOff(m, k), keys \ {k})

\* stopAllAudio: cancels the pending note-offs, stops every voice, releases the keys
\* (the store's activeKeys is emptied by the caller).
StopAllAudio(m, keys) ==
  ReleaseKeys(Tone_stopAllNotes([m EXCEPT !.timers = RemoveKind(@, "seqNoteOff")]), keys)

\* What a state field holds once undefined was assigned to it: params, tempo (a
\* number elsewhere) and sequencerSteps (an array elsewhere).
Undefined == [params |-> [undefined |-> TRUE], tempo |-> -1, sequencerSteps |-> << >>]

\* Property names PRESETS, an object literal, inherits from Object.prototype; the
\* value PRESETS[name] of each is truthy and has no params, tempo or sequencerSteps.
InheritedKeys == {"constructor", "toString", "hasOwnProperty"}

\* loadPreset's updater: const preset = PRESETS[presetName]; if (!preset) return {};
\* otherwise the five fields it returns.  The result is the store's new value of
\* these fields.
loadPreset(presetName) ==
  IF presetName \in DOMAIN PRESETS
  THEN [params |-> PRESETS[presetName].params, tempo |-> PRESETS[presetName].tempo,
        sequencerSteps |-> PRESETS[presetName].sequencerSteps, currentStep |-> 0,
        currentPreset |-> presetName]
  ELSE IF presetName \in InheritedKeys
  THEN [params |-> Undefined.params, tempo |-> Undefined.tempo,
        sequencerSteps |-> Undefined.sequencerSteps, currentStep |-> 0,
        currentPreset |-> presetName]
  ELSE [params |-> params, tempo |-> tempo, sequencerSteps |-> sequencerSteps,
        currentStep |-> currentStep, currentPreset |-> currentPreset]

(***************************************************************************)
(* The engines driven directly through their public methods.               *)
(***************************************************************************)
Notes == {60, 62}                  \* the notes the direct calls use
ParamEdits == {[release |-> 50]}
\* A turn of several knobs at once: filter, LFO and release.
ToneParamEdits ==
  {[release |-> 50, cutoff |-> 2000, resonance |-> 50, filterType |-> "highpass",
    lfoRate |-> 80, lfoAmount |-> 50]}

ToneMachine == [synth |-> tone, timers |-> timers, calls |-> << >>]
WithinBounds(m) == Len(m.synth.pool) <= MaxVoices /\ Len(m.timers) <= MaxTimers

\* The state after a handler named name left the Tone machine as m.
ToneStep(name, m, arg) ==
  /\ WithinBounds(m)
  /\ tone' = m.synth
  /\ timers' = m.timers
  /\ UNCHANGED launcher
  /\ lastOp' = OpArg(name, m.calls, arg)

ToneDone(name, m) == ToneStep(name, m, NoArg)

ToneNoteOn(n) ==
  /\ ToneDone("Tone.noteOn", Tone_noteOn(ToneMachine, n, 100, 0))
  /\ UNCHANGED << web, storeVars, appVars, app >>

ToneNoteOff(n) ==
  /\ ToneDone("Tone.noteOff", Tone_noteOff(ToneMachine, n))
  /\ UNCHANGED << web, storeVars, appVars, app >>

ToneStopAllNotes ==
  /\ ToneDone("Tone.stopAllNotes", Tone_stopAllNotes(ToneMachine))
  /\ UNCHANGED << web, storeVars, appVars, app >>

ToneUpdateParams(p) ==
  /\ ToneStep("Tone.updateParams", Tone_updateParams(ToneMachine, p), p)
  /\ UNCHANGED << web, storeVars, appVars, app >>

VolumeInputs == {-20, -1, 0, 1, 35, 50, 99, 100, 101, 150, 1000}

ToneSetMasterVolume(v) ==
  /\ ToneStep("Tone.setMasterVolume", Tone_setMasterVolume(ToneMachine, v), [volume |-> v])
  /\ UNCHANGED << web, storeVars, appVars, app >>

(***************************************************************************)
(* The event loop: a pending callback runs when its time is up; time never *)
(* passes a callback that is due.                                          *)
(***************************************************************************)
Due(k) ==
  /\ ~Dirty
  /\ timers # << >>
  /\ timers[NextTimer(timers)].due = 0
  /\ timers[NextTimer(timers)].kind = k

\* The machine a one-shot callback starts from: the callback is no longer pending.
Fired == [synth |-> tone, timers |-> RemoveAt(timers, NextTimer(timers)), calls |-> << >>]

FireToneDispose ==
  /\ Due("toneDispose")
  /\ ToneDone("toneDispose", Tone_disposeVoice(Fired, timers[NextTimer(timers)].voice))
  /\ UNCHANGED << web, storeVars, appVars, app >>

FireToneDisposeAll ==
  /\ Due("toneDisposeAll")
  /\ ToneDone("toneDisposeAll", Tone_disposeAll(Fired))
  /\ UNCHANGED << web, storeVars, appVars, app >>

\* Time passes until the next callback is due.
AdvanceTime ==
  /\ ~Dirty
  /\ timers # << >>
  /\ LET d == timers[NextTimer(timers)].due IN
     /\ d > 0
     /\ timers' = [i \in DOMAIN timers |-> [timers[i] EXCEPT !.due = @ - d]]
     /\ web' = WebAged(web, d)
  /\ UNCHANGED launcher
  /\ lastOp' = Op("advanceTime", << >>)
  /\ UNCHANGED << tone, storeVars, appVars, app >>

WebMachine == [synth |-> web, timers |-> timers, calls |-> << >>]

WebStep(name, m, arg) ==
  /\ WithinBounds(m)
  /\ web' = m.synth
  /\ timers' = m.timers
  /\ UNCHANGED launcher
  /\ lastOp' = OpArg(name, m.calls, arg)

WebDone(name, m) == WebStep(name, m, NoArg)

WebNoteOn(n, slideTime) ==
  /\ WebDone("Web.noteOn", Web_noteOn(WebMachine, n, 100, slideTime))
  /\ UNCHANGED << tone, storeVars, appVars, app >>

WebNoteOff(n) ==
  /\ WebDone("Web.noteOff", Web_noteOff(WebMachine, n))
  /\ UNCHANGED << tone, storeVars, appVars, app >>

WebStopAllNotes ==
  /\ WebDone("Web.stopAllNotes", Web_stopAllNotes(WebMachine))
  /\ UNCHANGED << tone, storeVars, appVars, app >>

WebUpdateParams(p) ==
  /\ WebStep("Web.updateParams", Web_updateParams(WebMachine, p), p)
  /\ UNCHANGED << tone, storeVars, appVars, app >>

WebSetMasterVolume(v) ==
  /\ WebStep("Web.setMasterVolume", Web_setMasterVolume(WebMachine, v), [volume |-> v])
  /\ UNCHANGED << tone, storeVars, appVars, app >>

FireWebRemove ==
  /\ Due("webRemove")
  /\ WebDone("webRemove",
             Web_remove([synth |-> web, timers |-> RemoveAt(timers, NextTimer(timers)),
                         calls |-> << >>],
                        timers[NextTimer(timers)].note))
  /\ UNCHANGED << tone, storeVars, appVars, app >>

(***************************************************************************)
(* App.tsx: handlers.  Every handler runs with the effects of the previous *)
(* store update already run (React renders a store update and runs its     *)
(* effects before the next event or timer callback), so each is guarded by *)
(* ~Dirty and Commit is the only step a Dirty state allows.                *)
(***************************************************************************)
KeyNotes == {60}
TempoInputs == {120, 60}
StepIndexes == {0, 1}
StepInputs == {Step(60, 100, 100, FALSE, TRUE), Step(60, 90, 50, TRUE, FALSE)}
PresetInputs == {"bassDeep", "leadBright", "noSuchPreset"}

\* The sequencer as the last run of its effect saw it, and the time left on its tick
\* timer.
Was ==
  [isSequencerRunning |-> effectDeps.isSequencerRunning, tempo |-> effectDeps.tempo,
   currentStep |-> effectDeps.currentStep,
   tickLeft |-> IF KindIndexes(timers, "tick") = {} THEN -1
                ELSE timers[SetMin(KindIndexes(timers, "tick"))].due]

\* The state after a handler of App named name, called with arg, left the machine as m.
AppStep(name, m, arg) ==
  /\ Len(m.synth.pool) <= MaxAppVoices
  /\ Len(m.timers) <= MaxAppTimers
  /\ tone' = m.synth
  /\ timers' = m.timers
  /\ UNCHANGED launcher
  /\ lastOp' = OpFull(name, m.calls,
                      IF name \in {"commit", "handleClearSequencer"} THEN Was ELSE NoWas,
                      arg)
  /\ UNCHANGED web

AppDone(name, m) == AppStep(name, m, NoArg) /\ UNCHANGED app

\* A handler the user triggers.
UserDone(name, m) ==
  /\ ~Dirty
  /\ userOps < MaxUserOps
  /\ userOps' = userOps + 1
  /\ AppDone(name, m)

\* A handler the user triggers with an argument.
UserDoneArg(name, m, arg) ==
  /\ ~Dirty
  /\ userOps < MaxUserOps
  /\ userOps' = userOps + 1
  /\ AppStep(name, m, arg)
  /\ UNCHANGED app

handleKeyDown(midiNote) ==
  /\ midiNote \notin activeKeys
  /\ UserDone("handleKeyDown", Tone_noteOn(ToneMachine, midiNote, 100, 0))
  /\ activeKeys' = activeKeys \cup {midiNote}
  /\ UNCHANGED << params, sequencerSteps, currentStep, tempo, isSequencerRunning,
                  currentPreset, sequencerStepsRef, effectDeps, firstTick >>

handleKeyUp(midiNote) ==
  /\ midiNote \in activeKeys
  /\ UserDone("handleKeyUp", Tone_noteOff(ToneMachine, midiNote))
  /\ activeKeys' = activeKeys \ {midiNote}
  /\ UNCHANGED << params, sequencerSteps, currentStep, tempo, isSequencerRunning,
                  currentPreset, sequencerStepsRef, effectDeps, firstTick >>

\* onTogglePlay: setIsSequencerRunning(!isSequencerRunning).
TogglePlay ==
  /\ isSequencerRunning' = ~isSequencerRunning
  /\ UserDone("onTogglePlay", ToneMachine)
  /\ UNCHANGED << params, activeKeys, sequencerSteps, currentStep, tempo, currentPreset,
                  sequencerStepsRef, effectDeps, firstTick >>

setTempo(bpm) ==
  /\ tempo' = ClampTempo(bpm)
  /\ UserDoneArg("setTempo", ToneMachine, [bpm |-> bpm])
  /\ UNCHANGED << params, activeKeys, sequencerSteps, currentStep, isSequencerRunning,
                  currentPreset, sequencerStepsRef, effectDeps, firstTick >>

setSequencerStep(index, note) ==
  /\ sequencerSteps' = SetStep(sequencerSteps, index, note)
  /\ UserDoneArg("setSequencerStep", ToneMachine, [index |-> index, note |-> note])
  /\ UNCHANGED << params, activeKeys, currentStep, tempo, isSequencerRunning,
                  currentPreset, sequencerStepsRef, effectDeps, firstTick >>

setParams(newParams) ==
  /\ params' = Merge(params, newParams)
  /\ UserDoneArg("setParams", ToneMachine, newParams)
  /\ UNCHANGED << activeKeys, sequencerSteps, currentStep, tempo, isSequencerRunning,
                  currentPreset, sequencerStepsRef, effectDeps, firstTick >>

\* handleClearSequencer: stopAllAudio() when running, then the store's clearSequencer().
handleClearSequencer ==
  /\ UserDone("handleClearSequencer",
             IF isSequencerRunning THEN StopAllAudio(ToneMachine, activeKeys)
             ELSE ToneMachine)
  /\ activeKeys' = IF isSequencerRunning THEN {} ELSE activeKeys
  /\ sequencerSteps' = clearSequencer.sequencerSteps
  /\ currentStep' = clearSequencer.currentStep
  /\ UNCHANGED << params, tempo, isSequencerRunning, currentPreset, sequencerStepsRef, effectDeps, firstTick >>

\* handlePresetChange: stopAllAudio(), then the store's loadPreset(presetName).
handlePresetChange(presetName) ==
  /\ UserDoneArg("handlePresetChange", StopAllAudio(ToneMachine, activeKeys),
                 [presetName |-> presetName])
  /\ activeKeys' = {}
  /\ params' = loadPreset(presetName).params
  /\ tempo' = loadPreset(presetName).tempo
  /\ sequencerSteps' = loadPreset(presetName).sequencerSteps
  /\ currentStep' = loadPreset(presetName).currentStep
  /\ currentPreset' = loadPreset(presetName).currentPreset
  /\ UNCHANGED << isSequencerRunning, sequencerStepsRef, effectDeps, firstTick >>

\* handleRandomizeSequencer: stopAllAudio() when running, then generateRandomSequence().
handleRandomizeSequencer ==
  /\ UserDone("handleRandomizeSequencer",
             IF isSequencerRunning THEN StopAllAudio(ToneMachine, activeKeys)
             ELSE ToneMachine)
  /\ activeKeys' = IF isSequencerRunning THEN {} ELSE activeKeys
  /\ sequencerSteps' \in RandomPatterns
  /\ UNCHANGED << params, currentStep, tempo, isSequencerRunning, currentPreset, sequencerStepsRef, effectDeps, firstTick >>

(***************************************************************************)
(* App.tsx: the render that follows a store update, and its effects.  The  *)
(* cleanup of the sequencer effect runs first (when its dependencies       *)
(* changed and its last run returned one, that is, ran with the sequencer  *)
(* Running), then the bodies in source order: the params effect, the       *)
(* sequencerStepsRef effect, the sequencer effect.                         *)
(***************************************************************************)
SequencerChanged == SequencerDeps(effectDeps) # SequencerDeps(Deps)

\* A cleanup that cancels the pending note-offs and leaves the interval running.
SequencerCleanup_KeepInterval(m) == [m EXCEPT !.timers = RemoveKind(@, "seqNoteOff")]

\* The cleanup the Running branch returns: clearInterval, and clearTimeout on every
\* pending note-off.
SequencerCleanup(m) ==
  [m EXCEPT !.timers = RemoveKind(RemoveKind(@, "tick"), "seqNoteOff")]

\* The effect with a Stopped branch that does nothing.
SequencerEffect_NoStop(m) ==
  IF ~isSequencerRunning
  THEN m
  ELSE [m EXCEPT !.timers =
          Append(@, Timer("tick", StepDurationMs(tempo), 0, 0, tempo, currentStep))]

\* The body of the sequencer effect.
SequencerEffect(m) ==
  IF ~isSequencerRunning
  THEN StopAllAudio([m EXCEPT !.timers = RemoveKind(@, "tick")], activeKeys)
  ELSE [m EXCEPT !.timers =
          Append(@, Timer("tick", StepDurationMs(tempo), 0, 0, tempo, currentStep))]

\* The body of the params effect: synthRef.current.updateParams(params).
ParamsEffect(m) == Tone_updateParams(m, params)

Commit ==
  /\ Dirty
  /\ LET m1 == IF SequencerChanged /\ effectDeps.isSequencerRunning
               THEN SequencerCleanup(ToneMachine) ELSE ToneMachine
         m2 == IF effectDeps.params # params THEN ParamsEffect(m1) ELSE m1
         m3 == IF SequencerChanged THEN SequencerEffect(m2) ELSE m2
     IN AppDone("commit", m3)
  /\ sequencerStepsRef' = sequencerSteps
  /\ activeKeys' = IF SequencerChanged /\ ~isSequencerRunning THEN {} ELSE activeKeys
  /\ effectDeps' = Deps
  /\ IF SequencerChanged /\ isSequencerRunning /\ ~effectDeps.isSequencerRunning
     THEN firstTick' = TRUE
     ELSE UNCHANGED firstTick
  /\ UNCHANGED userOps
  /\ UNCHANGED << params, sequencerSteps, currentStep, tempo, isSequencerRunning,
                  currentPreset >>

\* The setInterval callback of the sequencer effect.  The closure holds nextStep and
\* stepDurationMs (here the tempo it was computed from); setInterval re-arms itself.
Tick ==
  /\ Due("tick")
  /\ LET i  == NextTimer(timers)
         t  == timers[i]
         nextStep == (t.nextStep + 1) % 16
         note == sequencerStepsRef[nextStep + 1]
         m0 == [synth |-> tone,
                timers |-> [timers EXCEPT ![i] = [t EXCEPT !.due = @ + StepDurationMs(t.tempo),
                                                            !.nextStep = nextStep]],
                calls |-> << >>]
         m1 == IF StepPlays(note)
               THEN LET m == Tone_noteOn(m0, note.note, note.velocity, SlideTime(note))
                    IN [m EXCEPT !.timers = SetTimeout(@, "seqNoteOff",
                                                       NoteOffDelay(t.tempo, note.duration),
                                                       0, note.note)]
               ELSE m0
     IN /\ AppDone("tick", m1)
        /\ currentStep' = nextStep
  /\ firstTick' = FALSE
  /\ UNCHANGED << params, activeKeys, sequencerSteps, tempo, isSequencerRunning,
                  currentPreset, sequencerStepsRef, effectDeps, userOps >>

\* The one-shot callback a tick scheduled: synthRef.current.noteOff(note.note).
SeqNoteOff ==
  /\ Due("seqNoteOff")
  /\ AppDone("seqNoteOff", Tone_noteOff(Fired, timers[NextTimer(timers)].note))
  /\ UNCHANGED << storeVars, appVars >>

(***************************************************************************)
(* Initial states and specifications.                                      *)
(***************************************************************************)
\* The store as create() builds it.
StoreInit ==
  /\ params = PRESETS.bassDeep.params
  /\ activeKeys = {}
  /\ sequencerSteps = PRESETS.bassDeep.sequencerSteps
  /\ currentStep = 0
  /\ tempo = PRESETS.bassDeep.tempo
  /\ isSequencerRunning = FALSE
  /\ currentPreset = "bassDeep"

\* App before its init effect has run: the store's patches, currentPatchId and
\* displayText as create() builds them, useState(false) for isInitialized, no database
\* (synth: synthRef.current is set; db: dbRef.current holds an open database; rows:
\* its patches table; nextId: the next AUTOINCREMENT id; savedFrom: history, the params
\* and pattern of the store when each row was saved).
AppUnmounted ==
  [isInitialized |-> FALSE, displayText |-> "", synth |-> FALSE, db |-> FALSE, rows |-> << >>,
   nextId |-> 1, savedFrom |-> << >>, patches |-> << >>, currentPatchId |-> 0]

\* App once its init effect has run to its end with the database open and empty.
AppMounted == [AppUnmounted EXCEPT !.isInitialized = TRUE, !.synth = TRUE, !.db = TRUE]

\* Freshly constructed engines, no App.
InitEngines ==
  /\ StoreInit
  /\ tone = ToneInit
  /\ web = WebInit
  /\ timers = << >>
  /\ sequencerStepsRef = sequencerSteps
  /\ effectDeps = Deps
  /\ firstTick = FALSE
  /\ userOps = 0
  /\ app = AppUnmounted
  /\ launcher = LauncherInit
  /\ lastOp = Op("init", << >>)

\* App once mounted: the init effect built the engine, loaded bassDeep and drew a
\* random pattern; the params effect pushed the store's params to the engine; the
\* sequencer effect, Stopped, ran stopAllAudio.
InitApp ==
  /\ params = PRESETS.bassDeep.params
  /\ activeKeys = {}
  /\ sequencerSteps \in RandomPatterns
  /\ currentStep = 0
  /\ tempo = PRESETS.bassDeep.tempo
  /\ isSequencerRunning = FALSE
  /\ currentPreset = "bassDeep"
  /\ LET m == StopAllAudio(Tone_updateParams([synth |-> ToneInit, timers |-> << >>,
                                              calls |-> << >>], params), {})
     IN tone = m.synth /\ timers = m.timers
  /\ web = WebInit
  /\ sequencerStepsRef = sequencerSteps
  /\ effectDeps = Deps
  /\ firstTick = FALSE
  /\ userOps = 0
  /\ app = AppMounted
  /\ launcher = LauncherInit
  /\ lastOp = Op("init", << >>)

NextTone ==
  \/ \E n \in Notes : ToneNoteOn(n)
  \/ \E n \in Notes : ToneNoteOff(n)
  \/ ToneStopAllNotes
  \/ \E p \in ToneParamEdits : ToneUpdateParams(p)
  \/ FireToneDispose
  \/ FireToneDisposeAll
  \/ AdvanceTime

NextWeb ==
  \/ \E n \in Notes, slideTime \in {0, 300} : WebNoteOn(n, slideTime)
  \/ \E n \in Notes : WebNoteOff(n)
  \/ WebStopAllNotes
  \/ \E p \in {[lfoAmount |-> 50, ringModAmount |-> 50]} : WebUpdateParams(p)
  \/ FireWebRemove
  \/ AdvanceTime

NextApp ==
  \/ \E k \in KeyNotes : handleKeyDown(k)
  \/ \E k \in KeyNotes : handleKeyUp(k)
  \/ TogglePlay
  \/ \E bpm \in TempoInputs : setTempo(bpm)
  \/ \E i \in StepIndexes, s \in StepInputs : setSequencerStep(i, s)
  \/ \E p \in ParamEdits : setParams(p)
  \/ handleClearSequencer
  \/ \E name \in PresetInputs : handlePresetChange(name)
  \/ handleRandomizeSequencer
  \/ Commit
  \/ Tick
  \/ SeqNoteOff
  \/ FireToneDispose
  \/ FireToneDisposeAll
  \/ AdvanceTime

\* The sequencer clock and what drives it.
NextSeq ==
  \/ TogglePlay
  \/ \E bpm \in TempoInputs : setTempo(bpm)
  \/ \E i \in StepIndexes, s \in StepInputs : setSequencerStep(i, s)
  \/ handleClearSequencer
  \/ \E name \in {"acidTechno"} : handlePresetChange(name)
  \/ Commit
  \/ Tick
  \/ FireToneDispose
  \/ FireToneDisposeAll
  \/ AdvanceTime

SpecTone == InitEngines /\ [][NextTone]_vars
SpecWeb == InitEngines /\ [][NextWeb]_vars
SpecApp == InitApp /\ [][NextApp]_vars
SpecSeq == InitApp /\ [][NextSeq]_vars


(***************************************************************************)
(* The store driven through App with the sequencer Stopped: tempo, presets *)
(* and the pattern operations.                                             *)
(***************************************************************************)
StoreTempoInputs == {-5, 0, 19, 20, 140, 300, 301, 1000}
StoreStepIndexes == {0, 15, 16, 18}
StorePresetInputs == {"acidTechno", "padAmbient", "pluckStaccato", "noSuchPreset"}

NextStore ==
  \/ /\ userOps < MaxStoreOps
     /\ \/ \E bpm \in StoreTempoInputs : setTempo(bpm)
        \/ \E i \in StoreStepIndexes, s \in StepInputs : setSequencerStep(i, s)
        \/ \E name \in StorePresetInputs : handlePresetChange(name)
        \/ handleClearSequencer
        \/ handleRandomizeSequencer
  \/ Commit
  \/ FireToneDisposeAll
  \/ AdvanceTime

SpecStore == InitApp /\ [][NextStore]_vars

(***************************************************************************)
(* The master volume of both engines.                                      *)
(***************************************************************************)
NextVolume ==
  \/ \E v \in VolumeInputs : ToneSetMasterVolume(v)
  \/ \E v \in VolumeInputs : WebSetMasterVolume(v)

SpecVolume == InitEngines /\ [][NextVolume]_vars


(***************************************************************************)
(* The store driven directly, without App.                                 *)
(***************************************************************************)
\* useSynthesizerStore.getState().loadPreset(presetName)
StoreLoadPreset(presetName) ==
  /\ params' = loadPreset(presetName).params
  /\ tempo' = loadPreset(presetName).tempo
  /\ sequencerSteps' = loadPreset(presetName).sequencerSteps
  /\ currentStep' = loadPreset(presetName).currentStep
  /\ currentPreset' = loadPreset(presetName).currentPreset
  /\ UNCHANGED launcher
  /\ lastOp' = OpArg("loadPreset", << >>, [presetName |-> presetName])
  /\ UNCHANGED << tone, web, timers, activeKeys, isSequencerRunning, appVars, app >>

\* The one-field setters setTempo, setCurrentStep and setIsSequencerRunning.
StoreSetter(field, value) ==
  /\ tempo' = IF field = "tempo" THEN ClampTempo(value) ELSE tempo
  /\ currentStep' = IF field = "currentStep" THEN value ELSE currentStep
  /\ isSequencerRunning' = IF field = "isSequencerRunning" THEN value = 1
                           ELSE isSequencerRunning
  /\ UNCHANGED launcher
  /\ lastOp' = OpArg("set", << >>, [field |-> field, value |-> value])
  /\ UNCHANGED << tone, web, timers, params, activeKeys, sequencerSteps, currentPreset,
                  appVars, app >>

NextPreset ==
  \/ \E name \in (DOMAIN PRESETS) \cup InheritedKeys \cup {"noSuchPreset", ""} :
       StoreLoadPreset(name)
  \/ \E bpm \in {19, 140, 301} : StoreSetter("tempo", bpm)
  \/ \E step \in {0, 7, 15} : StoreSetter("currentStep", step)
  \/ \E running \in {0, 1} : StoreSetter("isSequencerRunning", running)
SpecPreset == InitEngines /\ [][NextPreset]_vars

\* The Tone engine with an event loop that runs every callback that is due and a clock
\* that does not stop.
NextToneFair ==
  \/ \E n \in Notes : ToneNoteOn(n)
  \/ \E n \in Notes : ToneNoteOff(n)
  \/ ToneStopAllNotes
  \/ FireToneDispose
  \/ FireToneDisposeAll
  \/ AdvanceTime
SpecToneFair ==
  /\ InitEngines /\ [][NextToneFair]_vars
  /\ WF_vars(FireToneDispose)
  /\ WF_vars(FireToneDisposeAll)
  /\ WF_vars(AdvanceTime)

\* One note of the Web Audio synthesizer over time: the envelope of its gain.
NextEnvelope ==
  \/ WebNoteOn(60, 0)
  \/ WebNoteOff(60)
  \/ \E p \in {[release |-> 50]} : WebUpdateParams(p)
  \/ FireWebRemove
  \/ AdvanceTime

SpecEnvelope == InitEngines /\ [][NextEnvelope]_vars

SpecLauncher == InitEngines /\ [][NextLauncher]_vars

(***************************************************************************)
(* PatchDatabase.ts and the handlers of App that use it.                   *)
(***************************************************************************)
\* The columns of the patches table that hold parameters.
PatchParamFields ==
  {"oscillatorType", "volume", "attack", "decay", "sustain", "release", "cutoff",
   "resonance", "filterType", "lfoRate", "lfoAmount", "detuneAmount"}

\* What JSON.stringify followed by JSON.parse makes of one array element: a hole of the
\* array comes back as null, a step as itself.
JsonNull == Step(-2, -2, -2, FALSE, FALSE)
JsonRoundTrip(steps) == [i \in DOMAIN steps |-> IF steps[i] = Hole THEN JsonNull ELSE steps[i]]

\* savePatch: the row INSERT writes for a patch with params p and the JSON text of steps
\* (kept as the array JSON.parse gives back).
savePatch(p, steps) ==
  [id |-> app.nextId,
   params |-> [k \in PatchParamFields |-> p[k]],
   sequencerSteps |-> JsonRoundTrip(steps)]

\* loadAllPatches: SELECT * ... ORDER BY timestamp DESC (latest first).
loadAllPatches(rows) == [i \in DOMAIN rows |-> rows[Len(rows) + 1 - i]]

\* loadPatch: the rows with the id (none: null).
loadPatch(id) == {i \in DOMAIN app.rows : app.rows[i].id = id}

RECURSIVE SetSteps(_, _, _)
\* steps.forEach((step, idx) => setSequencerStep(idx, step)), from index idx on.
SetSteps(current, steps, idx) ==
  IF idx >= Len(steps) THEN current
  ELSE SetSteps(SetStep(current, idx, steps[idx + 1]), steps, idx + 1)

\* A handler of App that writes App's own state.
PatchDone(name, arg) ==
  /\ ~Dirty
  /\ userOps < MaxUserOps
  /\ userOps' = userOps + 1
  /\ AppStep(name, ToneMachine, arg)

handleSavePatch ==
  /\ PatchDone("handleSavePatch", NoArg)
  /\ IF app.db
     THEN LET rows == Append(app.rows, savePatch(params, sequencerSteps))
          IN app' = [app EXCEPT !.rows = rows, !.nextId = @ + 1,
                                !.savedFrom = Append(@, [params |-> params,
                                                         sequencerSteps |-> sequencerSteps]),
                                !.patches = loadAllPatches(rows),
                                !.currentPatchId = app.nextId,
                                !.displayText = "Saved"]
     ELSE app' = [app EXCEPT !.patches = << >>, !.currentPatchId = -1,
                             !.displayText = "Saved"]
  /\ UNCHANGED << storeVars, sequencerStepsRef, effectDeps, firstTick >>

handleLoadPatch(id) ==
  /\ PatchDone("handleLoadPatch", [id |-> id])
  /\ IF ~app.db
     THEN /\ app' = [app EXCEPT !.displayText = "Load failed"]
          /\ UNCHANGED << params, sequencerSteps >>
     ELSE IF loadPatch(id) = {}
     THEN UNCHANGED << app, params, sequencerSteps >>
     ELSE LET patch == app.rows[SetMin(loadPatch(id))] IN
          /\ params' = Merge(params, patch.params)
          /\ sequencerSteps' = SetSteps(sequencerSteps, patch.sequencerSteps, 0)
          /\ app' = [app EXCEPT !.currentPatchId = id, !.displayText = "Loaded"]
  /\ UNCHANGED << activeKeys, currentStep, tempo, isSequencerRunning, currentPreset,
                  sequencerStepsRef, effectDeps, firstTick >>

(***************************************************************************)
(* App.tsx: the init effect, and App with its patch handlers.              *)
(***************************************************************************)
\* The init effect.  engineOk: new WebAudioSynthesizer() returned (it throws when the
\* audio context cannot be built); dbOk: PatchDatabase.initialize() opened a database
\* (it catches its own failure and leaves db null).
InitEffect(engineOk, dbOk) ==
  /\ lastOp.name = "init"
  /\ ~app.isInitialized
  /\ IF engineOk
     THEN \E steps \in RandomPatterns :
          LET m == StopAllAudio(Tone_updateParams([synth |-> ToneInit, timers |-> << >>,
                                                   calls |-> << >>],
                                                  PRESETS.bassDeep.params), {})
          IN /\ params' = PRESETS.bassDeep.params
             /\ tempo' = PRESETS.bassDeep.tempo
             /\ sequencerSteps' = steps
             /\ currentStep' = 0
             /\ currentPreset' = "bassDeep"
             /\ tone' = m.synth
             /\ timers' = m.timers
             /\ sequencerStepsRef' = steps
             /\ effectDeps' = [effectDeps EXCEPT !.params = PRESETS.bassDeep.params,
                                                 !.tempo = PRESETS.bassDeep.tempo,
                                                 !.currentStep = 0,
                                                 !.sequencerSteps = steps]
             /\ app' = [app EXCEPT !.synth = TRUE, !.db = dbOk, !.isInitialized = TRUE]
             /\ UNCHANGED launcher
             /\ lastOp' = Op("initEffect", m.calls)
     ELSE /\ app' = [app EXCEPT !.displayText = "Error: Check console"]
          /\ UNCHANGED launcher
          /\ lastOp' = Op("initEffect", << >>)
          /\ UNCHANGED << params, tempo, sequencerSteps, currentStep, currentPreset, tone,
                          timers, sequencerStepsRef, effectDeps >>
  /\ UNCHANGED << web, activeKeys, isSequencerRunning, firstTick, userOps >>

PatchParamEdits ==
  {[ringModAmount |-> 50, wetness |-> 80], [cutoff |-> 2000, filterType |-> "highpass"]}
PatchStepIndexes == {1, 15}
PatchStepInputs == {Step(60, 100, 100, FALSE, TRUE)}
PatchIds == {1, 2}
PatchPresetInputs == {"acidTechno"}

\* App from before its init effect; the handlers need the rendered UI, which the render
\* guard withholds until isInitialized.
NextPatch ==
  \/ \E engineOk, dbOk \in BOOLEAN : InitEffect(engineOk, dbOk)
  \/ /\ app.isInitialized
     /\ \/ \E p \in PatchParamEdits : setParams(p)
        \/ \E i \in PatchStepIndexes, s \in PatchStepInputs : setSequencerStep(i, s)
        \/ \E name \in PatchPresetInputs : handlePresetChange(name)
        \/ handleSavePatch
        \/ \E id \in PatchIds : handleLoadPatch(id)
  \/ Commit
  \/ FireToneDisposeAll
  \/ AdvanceTime

SpecPatch == InitEngines /\ [][NextPatch]_vars
\* The conversions applied to every MIDI note.
PitchDone(name, arg) ==
  /\ UNCHANGED launcher
  /\ lastOp' = OpArg(name, << >>, arg)
  /\ UNCHANGED << tone, web, timers, storeVars, appVars, app >>

\* midiNoteToFrequency(n)
PitchToFrequency(n) ==
  PitchDone("midiNoteToFrequency", [note |-> n, frequency |-> midiNoteToFrequency(n)])

\* frequencyToMidiNote of the frequency just computed.
PitchToNote ==
  /\ lastOp.name = "midiNoteToFrequency"
  /\ PitchDone("frequencyToMidiNote",
               [note |-> lastOp.arg.note, frequency |-> lastOp.arg.frequency,
                back |-> frequencyToMidiNote(lastOp.arg.frequency)])

\* midiNoteToFrequency of the note just computed.
PitchToFrequencyAgain ==
  /\ lastOp.name = "frequencyToMidiNote"
  /\ PitchDone("roundTrip",
               [note |-> lastOp.arg.note, frequency |-> lastOp.arg.frequency,
                back |-> lastOp.arg.back, again |-> midiNoteToFrequency(lastOp.arg.back)])

NextPitch ==
  \/ \E n \in MidiNotes : PitchToFrequency(n)
  \/ PitchToNote
  \/ PitchToFrequencyAgain
SpecPitch == InitEngines /\ [][NextPitch]_vars
(***************************************************************************)
(* Claims about the engines.                                               *)
(***************************************************************************)
\* The voices of note n that sound: attack triggered, neither released nor disposed.
ToneLive(t, n) ==
  {v \in DOMAIN t.pool : t.pool[v].note = n /\ ~t.pool[v].released /\ ~t.pool[v].disposed}
ToneRegistered(t, n) == IF n \in DOMAIN t.voices THEN {t.voices[n]} ELSE {}
FirstCall(op) == op.calls[1]
ToneNotes(t) == {t.pool[v].note : v \in DOMAIN t.pool}

C1_Step ==
  /\ \A n \in ToneNotes(tone') :
       /\ Cardinality(ToneLive(tone', n)) <= 1
       /\ ToneLive(tone', n) \subseteq ToneRegistered(tone', n)
  /\ lastOp'.name = "Tone.noteOn" /\ FirstCall(lastOp')[2] \in DOMAIN tone.voices
     => LET n == FirstCall(lastOp')[2]
            old == tone.voices[n]
        IN /\ lastOp'.calls = << Call("noteOn", n, 100, 0), Call("noteOff", n, 0, 0) >>
           /\ tone'.pool[old].released
           /\ old \notin MapValues(tone'.voices)
           /\ \E i \in DOMAIN timers' :
                timers'[i].kind = "toneDispose" /\ timers'[i].voice = old
           /\ ~ \E i \in DOMAIN timers :
                timers[i].kind = "toneDispose" /\ timers[i].voice = old
           /\ tone'.voices[n] = Len(tone.pool) + 1
           /\ ToneLive(tone', n) = {tone'.voices[n]}
           /\ n \in tone'.activeNotes

\* C1: in ToneSynthesizer at most one voice sounds per note, and it is the registered
\* one; noteOn(n) on a note with a registered voice runs the whole noteOff path for the
\* old voice (released, unregistered, disposal scheduled) before it registers the new
\* voice, which is then the only live voice of n.
C1_OneLiveVoicePerNote == [][C1_Step]_vars

\* A retrigger just happened: the old voice of the note is released and awaits
\* disposal, the new one is live and registered.
C1_Witness ==
  /\ lastOp.name = "Tone.noteOn"
  /\ Len(lastOp.calls) = 2
  /\ \E n \in DOMAIN tone.voices :
       /\ ToneLive(tone, n) = {tone.voices[n]}
       /\ \E i \in DOMAIN timers :
            /\ timers[i].kind = "toneDispose"
            /\ tone.pool[timers[i].voice].note = n
            /\ tone.pool[timers[i].voice].released
            /\ timers[i].voice < tone.voices[n]

\* C2: in both engines, right after noteOff(n) for a note with a registered voice, n is
\* in neither the active-note set nor the voice maps.
C2_NoteOffRemovesAtOnce ==
  [][ /\ lastOp'.name = "Tone.noteOff" /\ FirstCall(lastOp')[2] \in DOMAIN tone.voices
         => LET n == FirstCall(lastOp')[2]
            IN n \notin tone'.activeNotes /\ n \notin DOMAIN tone'.voices
      /\ lastOp'.name = "Web.noteOff" /\ FirstCall(lastOp')[2] \in DOMAIN web.oscillators
         => LET n == FirstCall(lastOp')[2]
            IN /\ n \notin web'.activeNotes
               /\ n \notin DOMAIN web'.oscillators
               /\ n \notin DOMAIN web'.gains
               /\ n \notin DOMAIN web'.filters ]_vars

\* C3: in both engines, right after stopAllNotes() the active-note set and the voice
\* maps are empty.
C3_StopAllClearsAtOnce ==
  [][ /\ lastOp'.name = "Tone.stopAllNotes"
         => tone'.activeNotes = {} /\ DOMAIN tone'.voices = {}
      /\ lastOp'.name = "Web.stopAllNotes"
         => /\ Web_getActiveNotes(web') = {}
            /\ DOMAIN web'.oscillators = {}
            /\ DOMAIN web'.gains = {}
            /\ DOMAIN web'.filters = {} ]_vars

\* C4: the batched disposal stopAllNotes scheduled leaves alone every voice created
\* after that stopAllNotes call (such a voice is the registered one that has not been
\* released when the timer fires): it stays registered and is not disposed.
C4_BatchedDisposalSparesNewVoices ==
  [][ lastOp'.name = "toneDisposeAll"
      => \A n \in DOMAIN tone.voices :
           ~tone.pool[tone.voices[n]].released
           => /\ n \in DOMAIN tone'.voices
              /\ tone'.voices[n] = tone.voices[n]
              /\ n \in tone'.activeNotes
              /\ ~tone'.pool[tone.voices[n]].disposed ]_vars

(***************************************************************************)
(* Claims about the sequencer clock.                                       *)
(***************************************************************************)
Pending(ts, k) == Cardinality(KindIndexes(ts, k))
Entries(calls, op) == {i \in DOMAIN calls : calls[i][1] = op}

\* C5: while the sequencer stays Running with the tempo unchanged, a pending one-shot
\* note-off timer goes away only by firing (and calling noteOff); nothing cancels it.
C5_NoteOffTimerFires ==
  [][ /\ effectDeps.isSequencerRunning /\ isSequencerRunning /\ isSequencerRunning'
      /\ effectDeps.tempo = tempo /\ tempo' = tempo
      => \/ Pending(timers', "seqNoteOff") >= Pending(timers, "seqNoteOff")
         \/ /\ lastOp'.name = "seqNoteOff"
            /\ Pending(timers', "seqNoteOff") = Pending(timers, "seqNoteOff") - 1
            /\ Entries(lastOp'.calls, "noteOff") # {} ]_vars

C6_Step ==
  /\ ~effectDeps'.isSequencerRunning
     => Pending(timers', "tick") = 0 /\ Pending(timers', "seqNoteOff") = 0
  /\ lastOp'.name = "commit" /\ effectDeps.isSequencerRunning /\ ~isSequencerRunning
     => /\ Pending(timers', "tick") = 0
        /\ Pending(timers', "seqNoteOff") = 0
        /\ Entries(lastOp'.calls, "stopAllNotes") # {}
        /\ Entries(lastOp'.calls, "noteOn") = {}
        /\ \A v \in DOMAIN tone.pool : tone'.pool[v].released \/ tone'.pool[v].disposed
  /\ lastOp'.name \in {"tick", "seqNoteOff"}
     => isSequencerRunning /\ effectDeps.isSequencerRunning

\* C6: the effect run that sees Running turn to Stopped leaves no tick timer and no
\* note-off timer pending and calls the engine's stopAllNotes (no voice is left sounding);
\* while the sequencer is Stopped no such timer is pending, and tick and note-off
\* callbacks run only while it is Running.
C6_StopCancelsAndSilences == [][C6_Step]_vars

\* The sequencer was just stopped while its tick timer was pending and a voice it
\* started had not been released.
C6_Witness ==
  /\ lastOp.name = "commit"
  /\ lastOp.was.isSequencerRunning /\ ~isSequencerRunning
  /\ lastOp.was.tickLeft > 0
  /\ Entries(lastOp.calls, "stopAllNotes") # {}
  /\ \E v \in DOMAIN tone.pool : tone.pool[v].note = 31 /\ tone.pool[v].released
  /\ Pending(timers, "tick") = 0

C7_Step ==
  /\ currentStep' \in 0..15
  /\ lastOp'.name = "tick"
     => LET note == sequencerSteps[currentStep' + 1] IN
        /\ currentStep' = (currentStep + 1) % 16
        /\ IF note.enabled /\ note.note > 0
           THEN /\ lastOp'.calls[1] =
                     Call("noteOn", note.note, note.velocity, IF note.slide THEN 300 ELSE 0)
                /\ Cardinality(Entries(lastOp'.calls, "noteOn")) = 1
                /\ Pending(timers', "seqNoteOff") = Pending(timers, "seqNoteOff") + 1
                /\ timers'[Len(timers')].kind = "seqNoteOff"
                /\ timers'[Len(timers')].note = note.note
                /\ note.note \in DOMAIN tone'.voices
           ELSE /\ lastOp'.calls = << >>
                /\ Pending(timers', "seqNoteOff") = Pending(timers, "seqNoteOff")
                /\ tone' = tone

\* C7: every tick moves currentStep to (currentStep + 1) mod 16, which stays in 0..15,
\* and the step at the new index gets noteOn(note, velocity, 0.3 s if slide else 0) and a
\* note-off timer exactly when it is enabled with note > 0; a rest or a disabled step
\* gets no engine call and no timer.
C7_TickAdvancesAndPlays == [][C7_Step]_vars

\* A tick wrapped from step 15 to step 0 and played it.
C7_Witness ==
  /\ lastOp.name = "tick"
  /\ currentStep = 0
  /\ lastOp.calls # << >>
  /\ lastOp.calls[1] = Call("noteOn", 60, 100, 0)
  /\ Pending(timers, "seqNoteOff") = 1

\* C8: at tempo 120, started from currentStep 0 on a pattern whose step 0 is
\* {note 60, velocity 1, duration 1, no slide, enabled}, the first tick (one step
\* period of 125 ms after the start) issues noteOn(60, 1, 0).
C8_FirstTickPlaysStepZero ==
  [][ /\ lastOp'.name = "tick" /\ firstTick
      /\ tempo = 120 /\ effectDeps.currentStep = 0
      /\ sequencerSteps[1] = Step(60, 100, 100, FALSE, TRUE)
      => /\ lastOp'.calls # << >>
         /\ lastOp'.calls[1] = Call("noteOn", 60, 100, 0) ]_vars

\* A commit that sees the tempo changed while the sequencer is and stays Running.
TempoChangedWhileRunning ==
  /\ lastOp'.name = "commit"
  /\ effectDeps.isSequencerRunning /\ isSequencerRunning
  /\ effectDeps.tempo # tempo

\* C9 as stated: a tempo change while Running leaves the pending tick timer alone: it
\* still fires at the time it was scheduled for, with the period it was created with.
C9_TempoChangeKeepsTick ==
  [][ TempoChangedWhileRunning
      => \E i \in KindIndexes(timers, "tick"), j \in KindIndexes(timers', "tick") :
           timers'[j].due = timers[i].due /\ timers'[j].tempo = timers[i].tempo ]_vars

\* C9 amended: a tempo change while Running cancels the pending tick timer and starts
\* a new interval; the next tick comes one full new step period (60000/tempo/4 ms)
\* after the change, continues from the current step, and no note-off timer survives.
C9_TempoChangeRestartsTick ==
  [][ TempoChangedWhileRunning
      => /\ Pending(timers', "tick") = 1
         /\ Pending(timers', "seqNoteOff") = 0
         /\ \A j \in KindIndexes(timers', "tick") :
              /\ timers'[j].due = (60000 \div tempo) \div 4
              /\ timers'[j].tempo = tempo
              /\ timers'[j].nextStep = currentStep
         /\ currentStep' = currentStep ]_vars

\* The tempo was changed while a tick timer was part-way through its period.
C9_Witness ==
  /\ lastOp.name = "commit"
  /\ lastOp.was.isSequencerRunning /\ isSequencerRunning
  /\ lastOp.was.tempo # tempo
  /\ lastOp.was.tickLeft > 0
  /\ lastOp.was.tickLeft < (60000 \div lastOp.was.tempo) \div 4
  /\ Pending(timers, "tick") = 1

\* C10: clearing the sequencer, Running or Stopped, leaves exactly 16 steps, each
\* {note 0, velocity 0.8, duration 0.5, no slide, enabled}, and currentStep 0; tempo,
\* isSequencerRunning and the synthesis parameters keep their values.
C10_ClearResetsPattern ==
  [][ lastOp'.name = "handleClearSequencer"
      => /\ Len(sequencerSteps') = 16
         /\ \A i \in 1..16 :
              sequencerSteps'[i] = [note |-> 0, velocity |-> 80, duration |-> 50,
                                    slide |-> FALSE, enabled |-> TRUE]
         /\ currentStep' = 0
         /\ tempo' = tempo
         /\ isSequencerRunning' = isSequencerRunning
         /\ params' = params
         /\ tone'.params = tone.params ]_vars

\* The sequencer was cleared while Running and past step 0.
C10_Witness ==
  /\ lastOp.name = "handleClearSequencer"
  /\ lastOp.was.isSequencerRunning /\ isSequencerRunning
  /\ lastOp.was.currentStep # 0
  /\ currentStep = 0
  /\ sequencerSteps = [i \in 1..16 |-> Step(0, 80, 50, FALSE, TRUE)]
  /\ tempo = 95

C12_MasterVolumeClamped ==
  [][ /\ lastOp'.name = "Tone.setMasterVolume"
         => LET v == lastOp'.arg.volume IN
            /\ tone'.masterGain = IF v > 100 THEN 100 ELSE IF v < 0 THEN 0 ELSE v
            /\ web' = web
      /\ lastOp'.name = "Web.setMasterVolume"
         => LET v == lastOp'.arg.volume IN
            /\ web'.masterGain = IF v > 100 THEN 100 ELSE IF v < 0 THEN 0 ELSE v
            /\ tone' = tone ]_vars

\* The Tone engine was given 1.5 after the Web Audio engine had been given -0.2.
C12_Witness ==
  /\ lastOp.name = "Tone.setMasterVolume"
  /\ lastOp.arg.volume = 150
  /\ tone.masterGain = 100
  /\ web.masterGain = 0

\* C13: in both engines noteOff(n) for a note with no voice registered changes nothing
\* in the engine and schedules no timer.
C13_NoteOffWithoutVoiceIsNoOp ==
  [][ /\ lastOp'.name = "Tone.noteOff"
         /\ FirstCall(lastOp')[2] \notin DOMAIN tone.voices
         /\ FirstCall(lastOp')[2] \notin tone.activeNotes
         => tone' = tone /\ timers' = timers
      /\ lastOp'.name = "Web.noteOff"
         /\ FirstCall(lastOp')[2] \notin DOMAIN web.oscillators
         /\ FirstCall(lastOp')[2] \notin web.activeNotes
         => web' = web /\ timers' = timers ]_vars

\* C20: in WebAudioSynthesizer the callback an earlier noteOff(n) scheduled never
\* deregisters a voice of n that is sounding when it runs (such a voice was created by a
\* noteOn issued after that noteOff): the voice stays in the oscillator, gain and filter
\* maps and n stays in the active-note set.
C20_StaleNoteOffTimerSparesNewVoice ==
  [][ lastOp'.name = "webRemove"
      => LET n == timers[NextTimer(timers)].note IN
         (/\ n \in DOMAIN web.oscillators
          /\ ~web.pool[web.oscillators[n]].released
          /\ ~web.pool[web.oscillators[n]].stopped)
         => /\ n \in DOMAIN web'.oscillators
            /\ web'.oscillators[n] = web.oscillators[n]
            /\ n \in DOMAIN web'.gains
            /\ n \in DOMAIN web'.filters
            /\ n \in web'.activeNotes ]_vars

ParamFieldNames ==
  {"oscillatorType", "frequency", "volume", "attack", "decay", "sustain", "release",
   "cutoff", "resonance", "filterType", "lfoRate", "lfoAmount", "detuneAmount",
   "ringModAmount", "wetness", "coarseness"}

C14_Step ==
  /\ DOMAIN params' = ParamFieldNames
  /\ DOMAIN tone'.params = ParamFieldNames
  /\ lastOp'.name = "setParams"
     => \A k \in ParamFieldNames :
          params'[k] = IF k \in DOMAIN lastOp'.arg THEN lastOp'.arg[k] ELSE params[k]
  /\ lastOp'.name = "handleLoadPatch"
     => \A k \in ParamFieldNames \ PatchParamFields : params'[k] = params[k]
  /\ lastOp'.name = "commit" /\ effectDeps.params # params
     => /\ Entries(lastOp'.calls, "updateParams") # {}
        /\ \A k \in ParamFieldNames : tone'.params[k] = params[k]

\* C14: the store's and the engine's parameter sets always have all sixteen fields;
\* setParams(partial) gives every field of partial its new value and leaves the others,
\* a patch load leaves the fields a patch does not carry, and the params effect hands
\* the engine the whole new set.
C14_ParamsFullyPopulated == [][C14_Step]_vars

\* Two partial edits have been merged and pushed to the engine.
C14_Witness ==
  /\ lastOp.name = "commit"
  /\ Entries(lastOp.calls, "updateParams") # {}
  /\ tone.params.ringModAmount = 50
  /\ tone.params.cutoff = 2000
  /\ tone.params.release = PRESETS.bassDeep.params.release

\* C18: once the init effect has run, App is initialised (isInitialized is true), also
\* when the engine could not be constructed.
C18_InitAlwaysCompletes == lastOp.name = "initEffect" => app.isInitialized

\* C19: loading a saved patch restores every field of the parameter set and every step
\* of the pattern to what the store held when the patch was saved.
C19_LoadRestoresSavedSettings ==
  [][ lastOp'.name = "handleLoadPatch" /\ app.db /\ loadPatch(lastOp'.arg.id) # {}
      => LET S == app.savedFrom[SetMin(loadPatch(lastOp'.arg.id))] IN
         /\ params' = S.params
         /\ sequencerSteps' = S.sequencerSteps ]_vars


C15_Step ==
  /\ lastOp'.name = "Tone.updateParams"
     => LET p == Merge(tone.params, lastOp'.arg) IN
        /\ tone'.params = p
        /\ \A n \in DOMAIN tone.voices :
             LET voice == tone'.pool[tone.voices[n]] IN
             /\ voice.cutoff = p.cutoff
             /\ voice.Q = p.resonance
             /\ voice.filterType = p.filterType
             /\ voice.lfoRate = p.lfoRate
  /\ lastOp'.name = "Tone.noteOn"
     => LET voice == tone'.pool[tone'.voices[FirstCall(lastOp')[2]]] IN
        /\ voice.cutoff = tone.params.cutoff
        /\ voice.Q = tone.params.resonance
        /\ voice.filterType = tone.params.filterType
        /\ voice.lfoOn = (tone.params.lfoAmount > 0)
        /\ voice.lfoOn => voice.lfoRate = tone.params.lfoRate

\* C15: ToneSynthesizer.updateParams(partial) merges and then sets the filter cutoff, Q
\* and type and the LFO rate of every registered voice to the merged values, and a
\* noteOn builds its voice from the parameter set the engine holds at that time.
C15_UpdatePushesBaselineToVoices == [][C15_Step]_vars

\* A voice built from the defaults has been moved to the edited baseline, and a voice
\* created after the edit carries it too.
C15_Witness ==
  /\ lastOp.name = "Tone.noteOn"
  /\ tone.params.cutoff = 2000
  /\ \E a, b \in MapValues(tone.voices) :
       /\ a # b
       /\ ~tone.pool[a].lfoOn /\ tone.pool[a].cutoff = 2000 /\ tone.pool[a].lfoRate = 80
       /\ tone.pool[b].lfoOn /\ tone.pool[b].cutoff = 2000 /\ tone.pool[b].lfoRate = 80

\* C16: for every MIDI note n, frequencyToMidiNote(midiNoteToFrequency(n)) = n, so
\* converting that note again gives the same frequency; and midiNoteToFrequency(69) is
\* 440 Hz.
C16_PitchRoundTrip ==
  /\ lastOp.name = "midiNoteToFrequency" /\ lastOp.arg.note = 69
     => lastOp.arg.frequency = 440000
  /\ lastOp.name \in {"frequencyToMidiNote", "roundTrip"} => lastOp.arg.back = lastOp.arg.note
  /\ lastOp.name = "roundTrip" => lastOp.arg.again = lastOp.arg.frequency

\* The lowest note has gone round: 8.175 Hz, note 0, 8.175 Hz.
C16_Witness ==
  /\ lastOp.name = "roundTrip"
  /\ lastOp.arg.note = 0
  /\ lastOp.arg.frequency = 8175
  /\ lastOp.arg.again = 8175

\* C17: the pattern has exactly 16 steps in every reachable state.
C17_PatternHasSixteenSteps == Len(sequencerSteps) = 16

\* C26: in ToneSynthesizer the active-note set is the key set of the voice map, in
\* every state noteOn, noteOff, stopAllNotes, updateParams and the timers reach.
C26_ActiveNotesAreVoiceKeys == tone.activeNotes = DOMAIN tone.voices

\* One note was released while another stays registered, after at least two noteOns.
C26_Witness ==
  /\ lastOp.name = "Tone.noteOff"
  /\ lastOp.calls[1][2] = 60
  /\ tone.activeNotes = {62}
  /\ Len(tone.pool) = 2
  /\ tone.pool[1].released

\* C29: loadPreset(name) leaves params, tempo, the pattern, currentStep and
\* currentPreset as they are when name is not a defined preset, installs the preset's
\* params, tempo and pattern with currentStep 0 and currentPreset name when it is, and
\* never changes isSequencerRunning.
C29_LoadPresetKnownOrUnchanged ==
  [][ lastOp'.name = "loadPreset"
      => LET name == lastOp'.arg.presetName IN
         /\ isSequencerRunning' = isSequencerRunning
         /\ IF name \in DOMAIN PRESETS
            THEN /\ params' = PRESETS[name].params
                 /\ tempo' = PRESETS[name].tempo
                 /\ sequencerSteps' = PRESETS[name].sequencerSteps
                 /\ currentStep' = 0
                 /\ currentPreset' = name
            ELSE UNCHANGED << params, tempo, sequencerSteps, currentStep, currentPreset >>
    ]_vars

\* C28: App never has more than one tick timer, and once the sequencer effect has run
\* for the Stopped state (the store says Stopped and the last render's effects saw it)
\* there is no tick timer and no pending note-off timer.
C28_OneTickTimerNoneWhenStopped ==
  /\ Pending(timers, "tick") <= 1
  /\ ~isSequencerRunning /\ ~effectDeps.isSequencerRunning
     => Pending(timers, "tick") = 0 /\ Pending(timers, "seqNoteOff") = 0

\* The sequencer ran, ticked, had its tempo changed and was stopped; the stop has been
\* rendered.
C28_Witness ==
  /\ lastOp.name = "commit"
  /\ ~isSequencerRunning
  /\ currentStep > 0
  /\ tempo # PRESETS.bassDeep.tempo
  /\ Pending(timers, "tick") = 0

\* C21: in ToneSynthesizer the disposal of a voice is scheduled no earlier than the
\* release time its envelope was built with after the release starts: the timer
\* noteOff sets for the voice it releases, and the timer stopAllNotes sets for the
\* voices it releases, has a delay of at least that release time.
C21_DisposalWaitsForEnvelopeRelease ==
  [][ /\ lastOp'.name = "Tone.noteOff" /\ FirstCall(lastOp')[2] \in DOMAIN tone.voices
         => LET v == tone.voices[FirstCall(lastOp')[2]] IN
            \A i \in DOMAIN timers' :
              timers'[i].kind = "toneDispose" /\ timers'[i].voice = v
              => timers'[i].due >= tone.pool[v].envRelease
      /\ lastOp'.name = "Tone.stopAllNotes"
         => \A v \in MapValues(tone.voices) :
              timers'[Len(timers')].due >= tone.pool[v].envRelease ]_vars

\* C27: in ToneSynthesizer no voice is disposed more than once, and every voice that
\* noteOff or stopAllNotes released is eventually disposed.
C27_DisposedOnceAndEventually ==
  /\ [](\A v \in DOMAIN tone.pool : tone.pool[v].disposals <= 1)
  /\ \A v \in 1 .. MaxVoices :
       (IF v \in DOMAIN tone.pool THEN tone.pool[v].released ELSE FALSE)
         ~> (IF v \in DOMAIN tone.pool THEN tone.pool[v].disposals = 1 ELSE FALSE)

\* The stopAllNotes timer has disposed a voice that stopAllNotes released, after the
\* noteOff timer disposed another voice.
C27_Witness ==
  /\ lastOp.name = "toneDisposeAll"
  /\ Len(tone.pool) = 2
  /\ \A v \in DOMAIN tone.pool : tone.pool[v].released /\ tone.pool[v].disposals = 1
  /\ timers = << >>

\* C22: in each engine noteOn(note, velocity, ...) starts an envelope whose attack
\* peaks at velocity * volume and whose decay ends at sustain * velocity * volume
\* (levels in ten-thousandths).
C22_EnvelopeScaledByVelocityAndVolume ==
  [][ /\ lastOp'.name = "Tone.noteOn"
         => LET voice == tone'.pool[Len(tone'.pool)]
                velocity == FirstCall(lastOp')[3]
            IN /\ voice.peak = velocity * tone.params.volume
               /\ voice.sustainLevel = (tone.params.sustain * velocity * tone.params.volume) \div 100
      /\ lastOp'.name = "Web.noteOn"
         => LET voice == web'.pool[Len(web'.pool)]
                velocity == FirstCall(lastOp')[3]
            IN /\ voice.peak = velocity * web.params.volume
               /\ voice.sustainLevel = (web.params.sustain * velocity * web.params.volume) \div 100
    ]_vars

\* C24: in WebAudioSynthesizer, once the timer of every noteOff(n) has run, no released
\* voice of note n is in any of the engine's maps, and the LFO and the ring-mod
\* oscillator of each, if it has one, have been stopped.
C24_VoiceComponentsTornDown ==
  [][ /\ lastOp'.name = "webRemove"
      /\ ~ \E i \in DOMAIN timers' :
            timers'[i].kind = "webRemove" /\ timers'[i].note = timers[NextTimer(timers)].note
      => \A v \in DOMAIN web'.pool :
           web'.pool[v].note = timers[NextTimer(timers)].note /\ web'.pool[v].released
           => /\ v \notin MapValues(web'.oscillators) \cup MapValues(web'.gains)
                     \cup MapValues(web'.filters) \cup MapValues(web'.lfos)
                     \cup MapValues(web'.ringModOscillators)
                     \cup MapValues(web'.ringModGains)
              /\ web'.pool[v].lfo => web'.pool[v].lfoStopped
              /\ web'.pool[v].ring => web'.pool[v].ringStopped ]_vars

\* C25: in WebAudioSynthesizer.noteOn(n, v, slideTime) with slideTime > 0 the glide
\* starts at the frequency of the highest note other than n that has a registered
\* voice which was not released, and at half the target frequency when there is none.
C25_SlideStartsFromHighestLiveNote ==
  [][ lastOp'.name = "Web.noteOn" /\ FirstCall(lastOp')[4] > 0
      => LET n == FirstCall(lastOp')[2]
             live == {k \in DOMAIN web.oscillators \ {n} :
                        ~web.pool[web.oscillators[k]].released}
             voice == web'.pool[Len(web'.pool)]
         IN voice.slideFrom = IF live = {} THEN midiNoteToFrequency(n) \div 2
                              ELSE midiNoteToFrequency(SetMax(live)) ]_vars

\* C23: WebAudioSynthesizer.noteOff(n), at any point of the envelope, keeps only the
\* automation points already reached and then ramps the gain linearly to 0 over
\* `release`, starting from the value the envelope has at the moment of release
\* (released mid-attack: the partial attack value, not the sustain level).
C23_ReleaseRampsFromCurrentGain ==
  [][ \A v \in DOMAIN web.pool :
        ( /\ lastOp'.name \in {"Web.noteOff", "Web.noteOn"}
          /\ web'.pool[v].automation # web.pool[v].automation )
        => LET old == web.pool[v]
               events == web'.pool[v].automation
               k == Len(events)
           IN /\ k >= 2
              /\ SubSeq(events, 1, k - 2) = SelectSeq(old.automation, LAMBDA e : e.time < old.age)
              /\ events[k - 1] = [value |-> ParamValueAt(old.automation, old.age),
                                  time |-> old.age, ramp |-> FALSE]
              /\ events[k] = [value |-> 0, time |-> old.age + web.params.release,
                              ramp |-> TRUE] ]_vars

\* C30: the server launcher schedules at most one restart per failed server child, so
\* at most one server child is alive at any time and no more than MAX_RETRIES children
\* are ever started, also when both 'error' and 'exit' are delivered for one child.
C30_OneRestartPerFailedChild ==
  /\ \A c \in DOMAIN launcher.children : launcher.children[c].restarts <= 1
  /\ Cardinality({c \in DOMAIN launcher.children : launcher.children[c].alive}) <= 1
  /\ Len(launcher.children) <= MAX_RETRIES
====
